---- MODULE Spec2Model ----
(***************************************************************************)
(* A model of the request parameter resolution engine of ellar:            *)
(*   - WebSocketExtraHandler.dispatch (src/routing/websocket_handlers.py)  *)
(*   - EndpointArgsModel.build_model and resolve_dependencies              *)
(*     (src/ellar/common/params/args/base.py)                              *)
(*   - ExtraEndpointArg (src/ellar/core/params/args/extra_args.py)         *)
(*   - EllarInterceptorConsumer.execute                                    *)
(*     (src/ellar/core/interceptors/consumer.py)                           *)
(* Each subsystem has its own specification over its own variables; the    *)
(* variables of the other subsystems stay at their initial values.         *)
(***************************************************************************)
EXTENDS Integers, Sequences, FiniteSets, TLC

VARIABLES
    \* ---- WebSocketExtraHandler ----
    encoding,        \* self.encoding
    on_connect,      \* self.on_connect is set
    on_disconnect,   \* self.on_disconnect is set
    pc,              \* position of the dispatch coroutine
    close_code,      \* local close_code of dispatch
    message,         \* local message of dispatch (last value of websocket.receive())
    data,            \* local data of dispatch (result of decode)
    nrecv,           \* number of websocket.receive messages returned so far
    events,          \* calls made by dispatch on the websocket and the hooks, in order
    raised,          \* the exception that left dispatch ("none" while it has not)
    \* ---- EndpointArgsModel ----
    endpoint_signature,   \* self.endpoint_signature: the parameters, in declaration order
    extra_endpoint_args,  \* self._extra_endpoint_args
    computation_models,   \* self._computation_models: bucket -> list of resolvers
    route_models,         \* self._route_models
    body_resolver,        \* self.body_resolver
    build_count,          \* number of build_model() calls so far
    build_error,          \* the exception the last build_model() raised, or "none"
    generator_calls,      \* the bulk resolver generators the last build_model() ran
    first_build,          \* route_models and build_error after the first build_model()
    required_fields,      \* names of the resolvers whose model field is required
    \* ---- EndpointArgsModel.resolve_dependencies, one call ----
    rpc,                  \* position of the call
    ridx,                 \* index in route_models of the next resolver of the for loop
    values,               \* local values
    errors,               \* local errors
    invoked,              \* the resolve() calls awaited, in order: resolver (0: the
                          \* body resolver) and what it returned
    body_errors,          \* the errors the body resolution added
    \* ---- ExtraEndpointArg ----
    extra_arg,            \* the ExtraEndpointArg object: name, annotation, default
    default_value,        \* the default_value its constructor was called with
    kwargs,               \* the keyword mapping resolve() is called on
    resolved,             \* the resolve() calls so far: kwargs before, and the outcome
    \* ---- concurrent resolve_dependencies calls on one model ----
    calls,                \* per call: position, index of the next resolver, the resolve()
                          \* calls it awaited, the model's resolvers when it started,
                          \* the calls that were suspended when it started
    accumulators,         \* per call: its local values and errors
    results,              \* per call: the (values, errors) it returned
    \* ---- EllarInterceptorConsumer.execute, one call ----
    route_interceptors_length,  \* local route_interceptors_length
    ipc,                  \* position of the execute coroutine
    frames,               \* the intercept() calls that are running, outermost first
    chain_log,            \* the calls made and the returns got so far, in order
    res,                  \* local res
    response_started      \* context.get_args()[0][SCOPE_RESPONSE_STARTED]

wsVars == <<encoding, on_connect, on_disconnect, pc, close_code, message, data,
            nrecv, events, raised>>

modelVars == <<endpoint_signature, extra_endpoint_args, computation_models,
               route_models, body_resolver, build_count, build_error, generator_calls,
               first_build, required_fields>>

resolveVars == <<rpc, ridx, values, errors, invoked, body_errors>>

extraVars == <<extra_arg, default_value, kwargs, resolved>>

callsVars == <<calls, accumulators, results>>

interceptVars == <<route_interceptors_length, ipc, frames, chain_log, res, response_started>>

otherThanWs == <<modelVars, resolveVars, extraVars, callsVars, interceptVars>>

otherThanModel == <<wsVars, resolveVars, extraVars, callsVars, interceptVars>>

otherThanResolve == <<wsVars, modelVars, extraVars, callsVars, interceptVars>>

otherThanExtra == <<wsVars, modelVars, resolveVars, callsVars, interceptVars>>

otherThanCalls == <<wsVars, modelVars, resolveVars, extraVars, interceptVars>>

otherThanIntercept == <<wsVars, modelVars, resolveVars, extraVars, callsVars>>

vars == <<wsVars, modelVars, resolveVars, extraVars, callsVars, interceptVars>>

(***************************************************************************)
(* Bounds                                                                  *)
(***************************************************************************)
\* websocket.receive messages one connection delivers before it disconnects or fails
MaxMessages == 2
\* parameters of an endpoint signature
MaxParams == 2
\* build_model() calls on one EndpointArgsModel
MaxBuilds == 2

\* resolve() calls of one ExtraEndpointArg on one keyword mapping
MaxResolves == 2

\* concurrent resolve_dependencies calls on one model
MaxCalls == 2

\* interceptors of one route
MaxInterceptors == 2

\* calls of the chain's handler(idx) during one execute()
MaxHandlerCalls == 4

(***************************************************************************)
(* status codes (starletteapi.status)                                      *)
(***************************************************************************)
WS_1000_NORMAL_CLOSURE == 1000
WS_1003_UNSUPPORTED_DATA == 1003
WS_1011_INTERNAL_ERROR == 1011

(***************************************************************************)
(* ASGI messages. A key of the message dict is absent, present with None,  *)
(* or present with a payload. Text payloads are a JSON document or text    *)
(* that json.loads rejects; bytes payloads are UTF-8 of either, or bytes   *)
(* that are not UTF-8.                                                     *)
(***************************************************************************)
ABSENT == "ABSENT"
NONE == "NONE"

TextPayloads == {"t_json", "t_plain"}
BytesPayloads == {"b_json", "b_plain", "b_notutf8"}
NoPayload == {ABSENT, NONE}

\* websocket.receive: exactly one of text and bytes carries a payload
ReceiveMessages ==
    [type : {"websocket.receive"}, text : TextPayloads, bytes : NoPayload,
     has_code : {FALSE}, code : {0}]
    \cup
    [type : {"websocket.receive"}, text : NoPayload, bytes : BytesPayloads,
     has_code : {FALSE}, code : {0}]

\* websocket.disconnect: the "code" key is optional (has_code), an int when present
DisconnectCodes == {1000, 1001, 1005}

DisconnectMessages ==
    [type : {"websocket.disconnect"}, text : {ABSENT}, bytes : {ABSENT},
     has_code : {TRUE}, code : DisconnectCodes]
    \cup
    [type : {"websocket.disconnect"}, text : {ABSENT}, bytes : {ABSENT},
     has_code : {FALSE}, code : {0}]

NoMessage ==
    [type |-> "none", text |-> ABSENT, bytes |-> ABSENT, has_code |-> FALSE, code |-> 0]

EncodingSet == {"text", "bytes", "json", NONE}

(***************************************************************************)
(* decode (lines 80-120), as a function of the encoding and the message.   *)
(* Result: the frames sent with send_json, whether close(1003) was called, *)
(* the exception raised ("none" when it returns) and the value returned.   *)
(***************************************************************************)
DecodeOk(value) ==
    [sent |-> <<>>, closed |-> FALSE, exc |-> "none", value |-> value]

\* send_json(dict(code=1003, details=...)); close(code=1003); raise RuntimeError
DecodeReject ==
    [sent |-> <<WS_1003_UNSUPPORTED_DATA>>, closed |-> TRUE, exc |-> "RuntimeError",
     value |-> NONE]

\* an exception that leaves decode from outside its error-reporting branches
DecodeCrash(exc) ==
    [sent |-> <<>>, closed |-> FALSE, exc |-> exc, value |-> NONE]

\* bytes.decode("utf-8")
Utf8Decode(b) ==
    CASE b = "b_json" -> "t_json"
      [] b = "b_plain" -> "t_plain"
      [] OTHER -> "UnicodeDecodeError"

\* message["bytes"]: KeyError when the key is absent
GetBytes(msg) == IF msg.bytes = ABSENT THEN "KeyError" ELSE msg.bytes

\* json.loads(text)
JsonLoads(text) == IF text = "t_json" THEN "json_value" ELSE "JSONDecodeError"

DecodeJsonText(text) ==
    IF JsonLoads(text) = "JSONDecodeError" THEN DecodeReject
    ELSE DecodeOk(JsonLoads(text))

DecodeJson(msg) ==
    IF msg.text # ABSENT /\ msg.text # NONE
    THEN DecodeJsonText(msg.text)
    ELSE CASE GetBytes(msg) = "KeyError" -> DecodeCrash("KeyError")
           [] GetBytes(msg) = NONE -> DecodeCrash("AttributeError")
           [] Utf8Decode(GetBytes(msg)) = "UnicodeDecodeError" ->
                DecodeCrash("UnicodeDecodeError")
           [] OTHER -> DecodeJsonText(Utf8Decode(GetBytes(msg)))

decode(enc, msg) ==
    CASE enc = "text" ->
           IF msg.text = ABSENT THEN DecodeReject ELSE DecodeOk(msg.text)
      [] enc = "bytes" ->
           IF msg.bytes = ABSENT THEN DecodeReject ELSE DecodeOk(msg.bytes)
      [] enc = "json" -> DecodeJson(msg)
      [] enc = NONE ->
           IF msg.text \in TextPayloads THEN DecodeOk(msg.text)
           ELSE IF GetBytes(msg) = "KeyError" THEN DecodeCrash("KeyError")
           ELSE DecodeOk(msg.bytes)
      [] OTHER -> DecodeCrash("AssertionError")

(***************************************************************************)
(* The calls dispatch makes and how they end, recorded in order. n is the   *)
(* index of the message the call belongs to, or the code it carries.       *)
(***************************************************************************)
Ev(op, n) == [op |-> op, n |-> n]

Log(evs) == events' = events \o evs

\* RaiseInLoop with the finally block lost: the exception leaves dispatch at once
RaiseInLoopSkipsCleanup(exc) ==
    /\ close_code' = WS_1011_INTERNAL_ERROR
    /\ raised' = exc
    /\ pc' = "done"

\* except Exception as exc: close_code = 1011; raise exc -- then the finally block
RaiseInLoop(exc) ==
    /\ close_code' = WS_1011_INTERNAL_ERROR
    /\ raised' = exc
    /\ pc' = "finally"

\* Disconnect that drops the code the client sent
DisconnectIgnoresCode(msg) ==
    /\ close_code' = WS_1000_NORMAL_CLOSURE
    /\ pc' = "finally"
    /\ UNCHANGED raised

\* Disconnect with the break lost: the loop goes on receiving
DisconnectWithoutBreak(msg) ==
    /\ close_code' = IF msg.has_code THEN msg.code ELSE WS_1000_NORMAL_CLOSURE
    /\ pc' = "receive"
    /\ UNCHANGED raised

\* elif message["type"] == "websocket.disconnect":
\*     close_code = int(message.get("code", 1000)); break
Disconnect(msg) ==
    /\ close_code' = IF msg.has_code THEN msg.code ELSE WS_1000_NORMAL_CLOSURE
    /\ pc' = "finally"
    /\ UNCHANGED raised

WsInit ==
    /\ encoding \in EncodingSet
    /\ on_connect \in BOOLEAN
    /\ on_disconnect \in BOOLEAN
    /\ pc = "connect"
    /\ close_code = 0
    /\ message = NoMessage
    /\ data = NONE
    /\ nrecv = 0
    /\ events = <<>>
    /\ raised = "none"

\* ConnectCalls with the return after the hook lost: accept() follows the hook
ConnectCallsNoReturn ==
    IF on_connect THEN <<Ev("on_connect", 0), Ev("accept", 0)>> ELSE <<Ev("accept", 0)>>

\* execute_on_connect (lines 70-74): the hook when registered, else accept()
ConnectCalls == IF on_connect THEN <<Ev("on_connect", 0)>> ELSE <<Ev("accept", 0)>>

\* ExecuteOnConnect with the connect step inside the try block: its exception goes
\* through the except clause and the finally block
ExecuteOnConnectInsideTry ==
    /\ pc = "connect"
    /\ Log(ConnectCalls)
    /\ \/ /\ pc' = "receive"
          /\ close_code' = WS_1000_NORMAL_CLOSURE
          /\ UNCHANGED raised
       \/ RaiseInLoop("ConnectError")
    /\ UNCHANGED <<encoding, on_connect, on_disconnect, message, data, nrecv>>
    /\ UNCHANGED otherThanWs

\* dispatch lines 31-33: execute_on_connect, then close_code = 1000
ExecuteOnConnect ==
    /\ pc = "connect"
    /\ Log(ConnectCalls)
    /\ \/ /\ pc' = "receive"
          /\ close_code' = WS_1000_NORMAL_CLOSURE
          /\ UNCHANGED raised
       \/ \* the hook or accept() raises: outside the try block
          /\ pc' = "done"
          /\ raised' = "ConnectError"
          /\ UNCHANGED close_code
    /\ UNCHANGED <<encoding, on_connect, on_disconnect, message, data, nrecv>>
    /\ UNCHANGED otherThanWs

\* dispatch line 37-38, 41: message = await websocket.receive()
Receive ==
    /\ pc = "receive"
    /\ \/ \E msg \in ReceiveMessages :
             /\ nrecv < MaxMessages
             /\ message' = msg
             /\ nrecv' = nrecv + 1
             /\ Log(<<Ev("receive", nrecv + 1)>>)
             /\ pc' = "decode"
             /\ UNCHANGED <<close_code, raised>>
       \/ \E msg \in DisconnectMessages :
             /\ message' = msg
             /\ Log(<<Ev("receive.disconnect", nrecv + 1)>>)
             /\ Disconnect(msg)
             /\ UNCHANGED nrecv
       \/ \* receive() raises
          /\ Log(<<Ev("receive.raise", nrecv + 1)>>)
          /\ RaiseInLoop("TransportError")
          /\ UNCHANGED <<message, nrecv>>
    /\ UNCHANGED <<encoding, on_connect, on_disconnect, data>>
    /\ UNCHANGED otherThanWs

\* what decode does on the websocket, then how it ends
DecodeCalls(r, k) ==
    [i \in 1..Len(r.sent) |-> Ev("send_json", r.sent[i])]
    \o (IF r.closed THEN <<Ev("close", WS_1003_UNSUPPORTED_DATA)>> ELSE <<>>)
    \o <<Ev(IF r.exc = "none" THEN "decode.ok" ELSE "decode.raise", k)>>

\* dispatch line 39: data = await self.decode(websocket, message)
Decode ==
    /\ pc = "decode"
    /\ LET r == decode(encoding, message) IN
         /\ Log(DecodeCalls(r, nrecv))
         /\ IF r.exc = "none"
            THEN /\ data' = r.value
                 /\ pc' = "resolve"
                 /\ UNCHANGED <<close_code, raised>>
            ELSE /\ RaiseInLoop(r.exc)
                 /\ UNCHANGED data
    /\ UNCHANGED <<encoding, on_connect, on_disconnect, message, nrecv>>
    /\ UNCHANGED otherThanWs

\* ReportValidationErrors with the raise lost: the frame is sent, on_receive still runs
ReportValidationErrorsNoRaise ==
    /\ Log(<<Ev("resolve.errors", nrecv),
             Ev("send_json.errors", WS_1003_UNSUPPORTED_DATA)>>)
    /\ pc' = "on_receive"
    /\ UNCHANGED <<close_code, raised>>

\* _resolve_receiver_dependencies, when errors is non-empty (lines 56-61)
ReportValidationErrors ==
    /\ Log(<<Ev("resolve.errors", nrecv),
             Ev("send_json.errors", WS_1003_UNSUPPORTED_DATA)>>)
    /\ RaiseInLoop("WebSocketRequestValidationError")

\* execute_on_receive line 65: extra_kwargs = await self._resolve_receiver_dependencies(..)
ResolveReceiverDependencies ==
    /\ pc = "resolve"
    /\ \/ \* resolve_ws_body_dependencies returns no errors
          /\ Log(<<Ev("resolve.ok", nrecv)>>)
          /\ pc' = "on_receive"
          /\ UNCHANGED <<close_code, raised>>
       \/ \* resolve_ws_body_dependencies returns errors
          ReportValidationErrors
       \/ \* resolve_ws_body_dependencies raises
          /\ Log(<<Ev("resolve.raise", nrecv)>>)
          /\ RaiseInLoop("ResolveError")
    /\ UNCHANGED <<encoding, on_connect, on_disconnect, message, data, nrecv>>
    /\ UNCHANGED otherThanWs

\* execute_on_receive lines 67-68: await self.on_receive(**receiver_kwargs)
ExecuteOnReceive ==
    /\ pc = "on_receive"
    /\ Log(<<Ev("on_receive", nrecv)>>)
    /\ \/ /\ pc' = "receive"
          /\ UNCHANGED <<close_code, raised>>
       \/ RaiseInLoop("ReceiverError")
    /\ UNCHANGED <<encoding, on_connect, on_disconnect, message, data, nrecv>>
    /\ UNCHANGED otherThanWs

\* finally: execute_on_disconnect (lines 47-48, 76-78); the hook is taken to return
ExecuteOnDisconnect ==
    /\ pc = "finally"
    /\ Log(IF on_disconnect THEN <<Ev("on_disconnect", close_code)>> ELSE <<>>)
    /\ pc' = "done"
    /\ UNCHANGED <<encoding, on_connect, on_disconnect, close_code, message, data,
                   nrecv, raised>>
    /\ UNCHANGED otherThanWs

WsNext ==
    \/ ExecuteOnConnect
    \/ Receive
    \/ Decode
    \/ ResolveReceiverDependencies
    \/ ExecuteOnReceive
    \/ ExecuteOnDisconnect

(***************************************************************************)
(* EndpointArgsModel: the endpoint, its parameters and their types.        *)
(* The route is "/items/{id}". A parameter is its name, kind, annotation   *)
(* and default as inspect.Parameter gives them; the default is "empty", a  *)
(* plain value, a field-info instance (by its class), or a                 *)
(* SystemParameterResolver instance.                                        *)
(***************************************************************************)
\* get_path_param_names("/items/{id}")
PathParamNames == {"id"}

FieldKinds == {"Path", "Query", "Header", "Cookie", "Body", "Form", "File"}

Defaults == {"empty", "value", "System"} \cup FieldKinds

\* int; List[int]; class Item(BaseModel): title: str; class Item2(BaseModel):
\* title2: Item; List[Item]
FieldAnnotations == {"int", "List[int]", "Item", "Item2", "List[Item]"}

\* the parameters a parameter name can stand for
ParamsNamed(n) ==
    CASE n = "self" ->
           [name : {n}, kind : {"POSITIONAL_OR_KEYWORD"}, annotation : {"empty", "int"},
            default : {"empty"}]
      [] n = "args" ->
           [name : {n}, kind : {"VAR_POSITIONAL"}, annotation : {"empty"},
            default : {"empty"}]
      [] n = "kwargs" ->
           [name : {n}, kind : {"VAR_KEYWORD"}, annotation : {"empty"},
            default : {"empty"}]
      [] OTHER ->
           [name : {n}, kind : {"POSITIONAL_OR_KEYWORD"}, annotation : FieldAnnotations,
            default : Defaults]
           \cup
           [name : {n}, kind : {"POSITIONAL_OR_KEYWORD"}, annotation : {"Request"},
            default : {"empty", "System"}]

ParamNames == {"id", "q", "self", "args", "kwargs"}

AllParams == UNION {ParamsNamed(n) : n \in ParamNames}

\* inspect.Signature: no two parameters of one name; self comes first, **kwargs last,
\* and only **kwargs follows *args
CanFollow(sig, p) ==
    /\ \A i \in 1..Len(sig) : sig[i].name # p.name
    /\ p.name = "self" => sig = <<>>
    /\ sig # <<>> =>
          /\ sig[Len(sig)].kind # "VAR_KEYWORD"
          /\ sig[Len(sig)].kind = "VAR_POSITIONAL" => p.kind = "VAR_KEYWORD"

\* the signatures of at most maxlen parameters drawn from params
RECURSIVE SignaturesOver(_, _)
SignaturesOver(params, maxlen) ==
    IF maxlen = 0 THEN {<<>>}
    ELSE LET shorter == SignaturesOver(params, maxlen - 1)
             longest == {sig \in shorter : Len(sig) = maxlen - 1}
         IN  shorter \cup
             UNION {{Append(sig, p) : p \in {q \in params : CanFollow(sig, q)}} :
                    sig \in longest}

\* every signature within the bound
Signatures(maxlen) == SignaturesOver(AllParams, maxlen)

\* the default_value an ExtraEndpointArg is constructed with: None (also when none is
\* given), 0, a non-zero plain value, a field marker, a system-parameter resolver
DefaultValues == {"None", "0", "value", "Header", "System"}

\* bool(default_value) is False
Falsy(d) == d \in {"None", "0"}

\* ExtraEndpointArg.__init__: self.default = default_value or self.empty
ExtraEndpointArg(name, annotation, d) ==
    [name |-> name, annotation |-> annotation,
     default |-> IF Falsy(d) THEN "empty" ELSE d]

\* the extra arguments of the endpoints build_model is run on
ExtraArgs == {ExtraEndpointArg("limit", "int", d) : d \in DefaultValues}

\* extra arguments of any name, annotation and default
AnyExtraArgs ==
    {ExtraEndpointArg(n, a, d) :
        n \in {"limit", "id"}, a \in {"int", "Request", "Item", "List[Item]"},
        d \in DefaultValues}

ExtraArgLists == {<<>>} \cup {<<x>> : x \in ExtraArgs}

(***************************************************************************)
(* Types                                                                   *)
(***************************************************************************)
\* helpers.is_scalar_field
is_scalar_field(annotation) == annotation \in {"empty", "int"}

\* helpers.is_scalar_sequence_field
is_scalar_sequence_field(annotation) == annotation = "List[int]"

\* lenient_issubclass(param_field.outer_type_, BaseModel)
IsBaseModel(annotation) == annotation \in {"Item", "Item2"}

\* number of fields of a model class
NumFields(annotation) == IF IsBaseModel(annotation) THEN 1 ELSE 0

\* get_default_resolver(param_annotation): a registered non-schema annotation
get_default_resolver(annotation) == annotation = "Request"

(***************************************************************************)
(* Resolvers                                                               *)
(***************************************************************************)
Buckets == {"header", "path", "query", "cookie", "body", "system"}

\* defaultdict(list)
EmptyModels == [b \in Buckets |-> <<>>]

\* the in_ of each field-info class (params.py)
InOf(kind) ==
    CASE kind = "Path" -> "path"
      [] kind = "Query" -> "query"
      [] kind = "Header" -> "header"
      [] kind = "Cookie" -> "cookie"
      [] OTHER -> "body"

Resolver(name, in_, kind, children) ==
    [name |-> name, in_ |-> in_, kind |-> kind, children |-> children]

NoResolver == Resolver("", "none", "None", 0)

\* the bulk_resolver of each field-info class (params.py)
BulkKind(kind) ==
    CASE kind = "Body" -> "BulkBody"
      [] kind \in {"Form", "File"} -> "BulkForm"
      [] OTHER -> "Bulk"

\* create_resolver that never returns the bulk resolver
CreateResolverNeverBulk(name, kind, children) == Resolver(name, InOf(kind), kind, 0)

\* ParamFieldInfo.create_resolver / FormFieldInfo.create_resolver, for a field whose
\* field_info.extra holds `children` resolvers under MULTI_RESOLVER_KEY
create_resolver(name, kind, children) ==
    IF children > 0
    THEN Resolver(name, InOf(kind), BulkKind(kind), children)
    ELSE Resolver(name, InOf(kind), kind, 0)

\* _add_to_model, and the appends of the two system-parameter helpers
AddToModel(models, resolver) ==
    [models EXCEPT ![resolver.in_] = Append(@, resolver)]

\* get_parameter_field: the field-info class of the field it builds
FieldKindOf(default, default_field_info, ignore_default) ==
    IF ~ignore_default /\ default \in FieldKinds THEN default ELSE default_field_info

\* get_resolver_generator: _bulk_resolvers_generators.get(str(type(param)), Bulk..)
get_resolver_generator(default) ==
    CASE default = "Form" -> "FormArgsResolverGenerator"
      [] default = "Path" -> "PathArgsResolverGenerator"
      [] default \in {"Query", "Header"} -> "QueryHeaderResolverGenerator"
      [] OTHER -> "BulkArgsResolverGenerator"

\* generator(param_field).generate_resolvers(): a model class is expanded into one
\* child resolver per field for a form field; for the other sources it is rejected
generate_resolvers(generator, kind, annotation) ==
    IF generator = "FormArgsResolverGenerator" /\ kind = "Form"
    THEN [exc |-> "none", children |-> NumFields(annotation)]
    ELSE [exc |-> "ImproperConfiguration", children |-> 0]

(***************************************************************************)
(* compute_route_parameter_list: what one parameter of the signature does  *)
(***************************************************************************)
Skip == [outcome |-> "skip", exc |-> "none", resolver |-> NoResolver, generator |-> "none"]

Add(resolver, generator) ==
    [outcome |-> "add", exc |-> "none", resolver |-> resolver, generator |-> generator]

Raise(exc, generator) ==
    [outcome |-> "raise", exc |-> exc, resolver |-> NoResolver, generator |-> generator]

\* IsSkipped that skips every parameter named self
IsSkippedAnySelf(p) ==
    \/ p.kind = "VAR_KEYWORD"
    \/ p.kind = "VAR_POSITIONAL"
    \/ p.name = "self"

\* lines 168-176: **kwargs, *args and an unannotated self
IsSkipped(p) ==
    \/ p.kind = "VAR_KEYWORD"
    \/ p.kind = "VAR_POSITIONAL"
    \/ (p.name = "self" /\ p.annotation = "empty")

\* _add_non_pydantic_field_to_dependency
IsNonPydanticField(p) == get_default_resolver(p.annotation) /\ p.default = "empty"

\* _add_system_parameters_to_dependency
IsSystemParameter(default) == default = "System"

\* get_parameter_field: required of the field it builds. The default is Required when
\* the parameter has none or it is ignored; a marker brings its own default, which is
\* always ... for PathFieldInfo (params.py:116) and is taken to be None for the others,
\* as in Query(None)
FieldRequired(default, ignore_default) ==
    \/ ignore_default
    \/ default = "empty"
    \/ default = "Path"

\* PathParameter that never ignores the default
PathParameterKeepsDefault(p) ==
    IF ~is_scalar_field(p.annotation)
    THEN Raise("AssertionError", "none")
    ELSE Add(create_resolver(p.name, FieldKindOf(p.default, "Path", FALSE), 0), "none")

\* PathParameter with the assertion on the type lost
PathParameterUnchecked(p) ==
    Add(create_resolver(p.name, FieldKindOf(p.default, "Path", p.default # "Path"), 0),
        "none")

\* PathParameter with the assertion also passed by a sequence of scalars
PathParameterAllowsSequences(p) ==
    IF ~is_scalar_field(p.annotation) /\ ~is_scalar_sequence_field(p.annotation)
    THEN Raise("AssertionError", "none")
    ELSE Add(create_resolver(p.name,
                             FieldKindOf(p.default, "Path", p.default # "Path"), 0),
             "none")

\* lines 192-207: the parameter's name is a path placeholder
PathParameter(p) ==
    IF ~is_scalar_field(p.annotation)
    THEN Raise("AssertionError", "none")
    ELSE Add(create_resolver(p.name,
                             FieldKindOf(p.default, "Path", p.default # "Path"), 0),
             "none")

\* the field-info classes compute_route_parameter_list never checks the type of
UncheckedKinds == {"Body", "File"}

\* lines 208-237: any other parameter
OtherParameter(p) ==
    LET default_field_info == IF p.default \in FieldKinds THEN p.default ELSE "Query"
        kind == FieldKindOf(p.default, default_field_info, FALSE)
        generator == get_resolver_generator(p.default)
        generated == generate_resolvers(generator, kind, p.annotation)
    IN  IF /\ kind \notin UncheckedKinds
           /\ ~is_scalar_field(p.annotation)
           /\ ~is_scalar_sequence_field(p.annotation)
        THEN IF ~IsBaseModel(p.annotation)
             THEN Raise("ImproperConfiguration", "none")
             ELSE IF generated.exc # "none"
                  THEN Raise(generated.exc, generator)
                  ELSE Add(create_resolver(p.name, kind, generated.children), generator)
        ELSE Add(create_resolver(p.name, kind, 0), "none")

\* SignatureParameter with the test of the path name before the two system tests
SignatureParameterPathFirst(p) ==
    IF IsSkipped(p) THEN Skip
    ELSE IF p.name \in PathParamNames THEN PathParameter(p)
    ELSE IF IsNonPydanticField(p)
         THEN Add(Resolver(p.name, "system", "NonSchema", 0), "none")
    ELSE IF IsSystemParameter(p.default)
         THEN Add(Resolver(p.name, "system", "System", 0), "none")
    ELSE OtherParameter(p)

\* one iteration of the for loop of compute_route_parameter_list: first match wins
SignatureParameter(p) ==
    IF IsSkipped(p) THEN Skip
    ELSE IF IsNonPydanticField(p)
         THEN Add(Resolver(p.name, "system", "NonSchema", 0), "none")
    ELSE IF IsSystemParameter(p.default)
         THEN Add(Resolver(p.name, "system", "System", 0), "none")
    ELSE IF p.name \in PathParamNames THEN PathParameter(p)
    ELSE OtherParameter(p)

\* one iteration of the for loop of _add_extra_route_args
ExtraParameter(x) ==
    IF IsSystemParameter(x.default)
    THEN Add(Resolver(x.name, "system", "System", 0), "none")
    ELSE Add(create_resolver(x.name,
                             FieldKindOf(x.default,
                                         IF x.default \in FieldKinds THEN x.default
                                         ELSE "Query",
                                         FALSE),
                             0),
             "none")

\* required of the field built for a signature parameter (FALSE when none is built)
SignatureRequired(p) ==
    IF IsSkipped(p) \/ IsNonPydanticField(p) \/ IsSystemParameter(p.default) THEN FALSE
    ELSE IF p.name \in PathParamNames THEN FieldRequired(p.default, p.default # "Path")
    ELSE FieldRequired(p.default, FALSE)

\* required of the field built for an extra argument (FALSE when none is built)
ExtraRequired(x) == ~IsSystemParameter(x.default) /\ FieldRequired(x.default, FALSE)

\* the for loops: the parameters from the i-th on, into models; the first raise ends it
RECURSIVE ComputeParameters(_, _, _, _)
ComputeParameters(steps, i, models, generators) ==
    IF i > Len(steps)
    THEN [models |-> models, exc |-> "none", generators |-> generators]
    ELSE LET r == steps[i]
             gens == IF r.generator = "none" THEN generators
                     ELSE Append(generators, r.generator)
         IN  CASE r.outcome = "raise" ->
                    [models |-> models, exc |-> r.exc, generators |-> gens]
               [] r.outcome = "skip" -> ComputeParameters(steps, i + 1, models, gens)
               [] OTHER ->
                    ComputeParameters(steps, i + 1, AddToModel(models, r.resolver), gens)

compute_route_parameter_list(sig, models) ==
    ComputeParameters([i \in 1..Len(sig) |-> SignatureParameter(sig[i])], 1, models, <<>>)

compute_extra_route_args(extras, models) ==
    ComputeParameters([i \in 1..Len(extras) |-> ExtraParameter(extras[i])], 1, models, <<>>)

\* build_body_field: the endpoint's single body resolver, if a body, form or file
\* field was classified
build_body_field(models) ==
    CASE Len(models["body"]) = 0 -> NoResolver
      [] Len(models["body"]) = 1 -> models["body"][1]
      [] OTHER -> Resolver("body", "body", "BulkBody", Len(models["body"]))

\* AssembleRouteModels with the path resolvers put first
AssemblePathFirst(models) ==
    models["path"] \o models["query"] \o models["header"] \o models["cookie"]
    \o models["system"]

\* build_model lines 146-152
AssembleRouteModels(models) ==
    models["header"] \o models["path"] \o models["query"] \o models["cookie"]
    \o models["system"]

\* build_model without the reset: the buckets of the last call are kept
KeepModels(models) == models

\* self._computation_models = defaultdict(list) (line 142)
ResetModels(models) == EmptyModels

\* build_model on a signature and extra arguments, on an instance whose buckets are
\* models: the buckets it leaves, the exception it raises and, when it returns, the
\* route models and body resolver
BuildResultFrom(sig, extras, models) ==
    LET a == compute_route_parameter_list(sig, ResetModels(models))
        b == compute_extra_route_args(extras, a.models)
    IN  IF a.exc # "none"
        THEN [exc |-> a.exc, models |-> a.models, generators |-> a.generators,
              route |-> <<>>, body |-> NoResolver]
        ELSE [exc |-> "none", models |-> b.models, generators |-> a.generators,
              route |-> AssembleRouteModels(b.models),
              body |-> build_body_field(b.models)]

\* build_model on a new instance
BuildResult(sig, extras) == BuildResultFrom(sig, extras, EmptyModels)

NotBuilt == [route |-> <<>>, error |-> "none"]

ModelInit(signatures, extras) ==
    /\ endpoint_signature \in signatures
    /\ extra_endpoint_args \in extras
    /\ computation_models = EmptyModels
    /\ route_models = <<>>
    /\ body_resolver = NoResolver
    /\ build_count = 0
    /\ build_error = "none"
    /\ generator_calls = <<>>
    /\ first_build = NotBuilt
    /\ required_fields = {}

\* an instance on which build_model() has been called once and returned
ModelBuilt(signatures, extras) ==
    /\ endpoint_signature \in signatures
    /\ extra_endpoint_args \in extras
    /\ LET r == BuildResult(endpoint_signature, extra_endpoint_args) IN
         /\ r.exc = "none"
         /\ computation_models = r.models
         /\ route_models = r.route
         /\ body_resolver = r.body
         /\ generator_calls = r.generators
         /\ first_build = [route |-> r.route, error |-> "none"]
    /\ build_count = 1
    /\ build_error = "none"
    /\ required_fields =
          {endpoint_signature[i].name : i \in {j \in 1..Len(endpoint_signature) :
                                                  SignatureRequired(endpoint_signature[j])}}
          \cup {extra_endpoint_args[i].name : i \in {j \in 1..Len(extra_endpoint_args) :
                                                     ExtraRequired(extra_endpoint_args[j])}}

\* the key of the bucket get_all_models reads besides the route models
ROUTE_OPENAPI_PARAMETERS == "openapi_parameters"

\* the convertors of "/items/{id}": one for each placeholder of the path
param_converters == PathParamNames

\* self._computation_models[key] of a defaultdict(list): a key nothing was appended
\* to gives the empty list
Bucket(models, key) == IF key \in DOMAIN models THEN models[key] ELSE <<>>

\* get_route_models()
get_route_models == route_models

\* get_all_models()
get_all_models == get_route_models \o Bucket(computation_models, ROUTE_OPENAPI_PARAMETERS)

\* the names get_omitted_prefix() returns a field for: the convertors' names that no
\* parameter of the signature has
get_omitted_prefix ==
    {name \in param_converters :
        \A i \in 1..Len(endpoint_signature) : endpoint_signature[i].name # name}

\* build_model()
BuildModel ==
    /\ build_count < MaxBuilds
    /\ \E r \in {BuildResultFrom(endpoint_signature, extra_endpoint_args, computation_models)} :
         /\ computation_models' = r.models
         /\ build_error' = r.exc
         /\ generator_calls' = r.generators
         /\ route_models' = IF r.exc = "none" THEN r.route ELSE route_models
         /\ body_resolver' = IF r.exc = "none" THEN r.body ELSE body_resolver
         /\ first_build' = IF build_count = 0
                           THEN [route |-> IF r.exc = "none" THEN r.route ELSE route_models,
                                 error |-> r.exc]
                           ELSE first_build
         /\ required_fields' =
               LET built == UNION {{r.models[b][i].name : i \in 1..Len(r.models[b])} :
                                   b \in Buckets}
               IN  {n \in built :
                      \/ \E i \in 1..Len(endpoint_signature) :
                            /\ endpoint_signature[i].name = n
                            /\ SignatureRequired(endpoint_signature[i])
                      \/ \E j \in 1..Len(extra_endpoint_args) :
                            /\ extra_endpoint_args[j].name = n
                            /\ ExtraRequired(extra_endpoint_args[j])}
    /\ build_count' = build_count + 1
    /\ UNCHANGED <<endpoint_signature, extra_endpoint_args>>
    /\ UNCHANGED otherThanModel

(***************************************************************************)
(* EndpointArgsModel.resolve_dependencies on a built model. What a         *)
(* resolver's resolve() returns is an input: a mapping (empty, or one key  *)
(* with a value that names the resolver) and no error, one error that is   *)
(* not a list, or a list of errors.                                        *)
(***************************************************************************)
Keys == {"a", "b"}

\* the value a key has when no resolver returned it
Unset == -1

\* resolver idx returns {}, or {k: <value of idx>}
ValueMaps(idx) ==
    {[k \in Keys |-> Unset]} \cup {[k \in Keys |-> IF k = key THEN idx ELSE Unset] : key \in Keys}

Error(idx, no) == [by |-> idx, no |-> no]

NoError == Error(Unset, 0)

\* value_errors of resolver idx: None, one ErrorWrapper, or a list of two
ErrorResults(idx) ==
    { [shape |-> "none", item |-> NoError, items |-> <<>>],
      [shape |-> "single", item |-> Error(idx, 1), items |-> <<>>],
      [shape |-> "list", item |-> NoError, items |-> <<Error(idx, 1), Error(idx, 2)>>] }

ResolveResults(idx) == [value : ValueMaps(idx), errors : ErrorResults(idx)]

\* if value_: (a non-empty mapping)
Truthy(value_) == \E k \in Keys : value_[k] # Unset

\* an update that keeps the value a key already has (setdefault for each key)
UpdateKeepFirst(vals, value_) ==
    [k \in Keys |-> IF vals[k] # Unset THEN vals[k] ELSE value_[k]]

\* values.update(value_)
Update(vals, value_) ==
    [k \in Keys |-> IF value_[k] # Unset THEN value_[k] ELSE vals[k]]

\* if value_errors: (not None, not an empty list)
HasErrors(value_errors) ==
    \/ value_errors.shape = "single"
    \/ (value_errors.shape = "list" /\ value_errors.items # <<>>)

\* value_errors if isinstance(value_errors, list) else [value_errors]
AsList(value_errors) ==
    IF value_errors.shape = "list" THEN value_errors.items ELSE <<value_errors.item>>

\* Merge that keeps the errors of the first failing resolver only
MergeFirstErrorsOnly(vals, errs, result) ==
    [values |-> IF Truthy(result.value) THEN Update(vals, result.value) ELSE vals,
     errors |-> IF HasErrors(result.errors) /\ errs = <<>>
                THEN AsList(result.errors) ELSE errs]

\* lines 301-309: the values and errors after one resolver's result
Merge(vals, errs, result) ==
    [values |-> IF Truthy(result.value) THEN Update(vals, result.value) ELSE vals,
     errors |-> IF HasErrors(result.errors) THEN errs \o AsList(result.errors) ELSE errs]

\* the index that stands for the body resolver in invoked and in values
BodyIdx == 0

ResolveIdle ==
    /\ rpc = "idle"
    /\ ridx = 1
    /\ values = [k \in Keys |-> Unset]
    /\ errors = <<>>
    /\ invoked = <<>>
    /\ body_errors = <<>>

\* lines 292-295: values = {}; errors = []; if self.body_resolver:
ResolveDependencies ==
    /\ rpc = "idle"
    /\ build_count > 0
    /\ build_error = "none"
    /\ rpc' = IF body_resolver # NoResolver THEN "body" ELSE "route"
    /\ UNCHANGED <<ridx, values, errors, invoked, body_errors>>
    /\ UNCHANGED otherThanResolve

\* AfterBody without the test of errors: the for loop always runs
AfterBodyAlwaysRoute(errs) == "route"

\* if not errors: (line 298)
AfterBody(errs) == IF errs = <<>> THEN "route" ELSE "return"

\* resolve_body: the body resolver is resolved, its values and errors are merged
\* into values and errors
ResolveBody ==
    /\ rpc = "body"
    /\ \E result \in ResolveResults(BodyIdx) :
          LET m == Merge(values, errors, result) IN
            /\ values' = m.values
            /\ errors' = m.errors
            /\ body_errors' = m.errors
            /\ invoked' = Append(invoked, [idx |-> BodyIdx, result |-> result])
            /\ rpc' = AfterBody(m.errors)
    /\ UNCHANGED ridx
    /\ UNCHANGED otherThanResolve

\* one iteration of the for loop (lines 299-309)
ResolveNext ==
    /\ rpc = "route"
    /\ ridx <= Len(route_models)
    /\ \E result \in ResolveResults(ridx) :
          LET m == Merge(values, errors, result) IN
            /\ values' = m.values
            /\ errors' = m.errors
            /\ invoked' = Append(invoked, [idx |-> ridx, result |-> result])
    /\ ridx' = ridx + 1
    /\ UNCHANGED <<rpc, body_errors>>
    /\ UNCHANGED otherThanResolve

\* return values, errors (line 310)
Return ==
    /\ \/ rpc = "return"
       \/ (rpc = "route" /\ ridx > Len(route_models))
    /\ rpc' = "returned"
    /\ UNCHANGED <<ridx, values, errors, invoked, body_errors>>
    /\ UNCHANGED otherThanResolve
(***************************************************************************)
(* ExtraEndpointArg (src/ellar/core/params/args/extra_args.py): the        *)
(* constructor and resolve(kwargs). A keyword mapping gives each key a     *)
(* value, or Unset when the key is absent; 0 is a value that is falsy.     *)
(***************************************************************************)
ArgNames == {"limit", "offset"}

KwKeys == {"limit", "offset", "q"}

KwValues == {0, 5}

KwMappings == [KwKeys -> KwValues \cup {Unset}]

NoArg == [name |-> "", annotation |-> "", default |-> ""]

ExtraIdle ==
    /\ extra_arg = NoArg
    /\ default_value = "unset"
    /\ kwargs = [k \in KwKeys |-> Unset]
    /\ resolved = <<>>

ExtraInit ==
    /\ extra_arg = NoArg
    /\ default_value = "unset"
    /\ kwargs \in KwMappings
    /\ resolved = <<>>

\* ExtraEndpointArg(name=..., annotation=int, default_value=...)
ConstructExtraArg ==
    /\ extra_arg = NoArg
    /\ \E name \in ArgNames, d \in DefaultValues :
          /\ extra_arg' = ExtraEndpointArg(name, "int", d)
          /\ default_value' = d
    /\ UNCHANGED <<kwargs, resolved>>
    /\ UNCHANGED otherThanExtra

\* resolve that reads the value and leaves the key
ResolveWithoutPop(arg, kw) ==
    IF kw[arg.name] # Unset
    THEN [exc |-> "none", value |-> kw[arg.name], kwargs |-> kw]
    ELSE [exc |-> "AttributeError", value |-> Unset, kwargs |-> kw]

\* ExtraEndpointArg.resolve: the value returned or the exception raised, and kwargs
\* after the call
resolve(arg, kw) ==
    IF kw[arg.name] # Unset
    THEN [exc |-> "none", value |-> kw[arg.name],
          kwargs |-> [kw EXCEPT ![arg.name] = Unset]]
    ELSE [exc |-> "AttributeError", value |-> Unset, kwargs |-> kw]

\* extra_arg.resolve(kwargs)
ResolveExtraArg ==
    /\ extra_arg # NoArg
    /\ Len(resolved) < MaxResolves
    /\ LET r == resolve(extra_arg, kwargs) IN
         /\ kwargs' = r.kwargs
         /\ resolved' = Append(resolved, [before |-> kwargs, exc |-> r.exc, value |-> r.value])
    /\ UNCHANGED <<extra_arg, default_value>>
    /\ UNCHANGED otherThanExtra

(***************************************************************************)
(* Concurrent resolve_dependencies calls on one built model. A call is     *)
(* suspended at each await (resolve_body, parameter_resolver.resolve) and  *)
(* other calls run meanwhile; what a resolver returns to a call depends on *)
(* the call's context, so the values and errors it returns name the call.  *)
(***************************************************************************)
Calls == 1..MaxCalls

\* what names the result of resolver idx in the context of call c
Tag(c, idx) == 10 * c + idx

\* what resolver idx returns to call c: a value and no error, one error that is not a
\* list, or a value and a list of two errors
CallResults(c, idx) ==
    {r \in ResolveResults(Tag(c, idx)) :
        \/ r.value["a"] # Unset /\ r.value["b"] = Unset /\ r.errors.shape = "none"
        \/ ~Truthy(r.value) /\ r.errors.shape = "single"
        \/ r.value["a"] = Unset /\ r.value["b"] # Unset /\ r.errors.shape = "list"}

NoAccumulator == [values |-> [k \in Keys |-> Unset], errors |-> <<>>]

NoResult == [returned |-> FALSE, values |-> [k \in Keys |-> Unset], errors |-> <<>>]

CallsIdle ==
    /\ calls = [c \in Calls |-> [rpc |-> "idle", ridx |-> 1, invoked |-> <<>>,
                                  route |-> <<>>, body |-> NoResolver, during |-> {}]]
    /\ accumulators = [c \in Calls |-> NoAccumulator]
    /\ results = [c \in Calls |-> NoResult]

\* values and errors kept on the model instead of in the call: one pair for all calls
SharedAccumulator(c) == 1

\* values and errors are locals of the call (lines 292-293)
Accumulator(c) == c

\* lines 292-295 for call c: values = {}; errors = []; if self.body_resolver:
CallStart(c) ==
    /\ calls[c].rpc = "idle"
    /\ build_count > 0
    /\ build_error = "none"
    /\ calls' = [calls EXCEPT ![c] =
                    [@ EXCEPT !.rpc = IF body_resolver # NoResolver THEN "body" ELSE "route",
                              !.route = route_models,
                              !.body = body_resolver,
                              !.during = {d \in Calls : calls[d].rpc \in {"body", "route", "return"}}]]
    /\ accumulators' = [accumulators EXCEPT ![Accumulator(c)] = NoAccumulator]
    /\ UNCHANGED results
    /\ UNCHANGED otherThanCalls

\* call c resumes from await self.resolve_body(ctx, values, errors)
CallBody(c) ==
    /\ calls[c].rpc = "body"
    /\ \E result \in CallResults(c, BodyIdx) :
          LET acc == accumulators[Accumulator(c)]
              m == Merge(acc.values, acc.errors, result)
          IN  /\ accumulators' = [accumulators EXCEPT ![Accumulator(c)] = m]
              /\ calls' = [calls EXCEPT ![c] =
                              [@ EXCEPT !.rpc = AfterBody(m.errors),
                                        !.invoked = Append(@, [idx |-> BodyIdx,
                                                               result |-> result])]]
    /\ UNCHANGED results
    /\ UNCHANGED otherThanCalls

\* call c resumes from await parameter_resolver.resolve(ctx=ctx): lines 300-309
CallNext(c) ==
    /\ calls[c].rpc = "route"
    /\ calls[c].ridx <= Len(route_models)
    /\ \E result \in CallResults(c, calls[c].ridx) :
          LET acc == accumulators[Accumulator(c)]
              m == Merge(acc.values, acc.errors, result)
          IN  /\ accumulators' = [accumulators EXCEPT ![Accumulator(c)] = m]
              /\ calls' = [calls EXCEPT ![c] =
                              [@ EXCEPT !.ridx = @ + 1,
                                        !.invoked = Append(@, [idx |-> calls[c].ridx,
                                                               result |-> result])]]
    /\ UNCHANGED results
    /\ UNCHANGED otherThanCalls

\* return values, errors (line 310)
CallReturn(c) ==
    /\ \/ calls[c].rpc = "return"
       \/ (calls[c].rpc = "route" /\ calls[c].ridx > Len(route_models))
    /\ calls' = [calls EXCEPT ![c] = [@ EXCEPT !.rpc = "returned"]]
    /\ results' = [results EXCEPT ![c] =
                      [returned |-> TRUE,
                       values |-> accumulators[Accumulator(c)].values,
                       errors |-> accumulators[Accumulator(c)].errors]]
    /\ UNCHANGED accumulators
    /\ UNCHANGED otherThanCalls


(***************************************************************************)
(* EllarInterceptorConsumer.execute, one call. What an interceptor does in *)
(* intercept(context, next_handler) is an input: it calls its next handler *)
(* any number of times, then returns a value of its choice or raises; an   *)
(* exception that comes out of the next handler is caught or propagated by *)
(* that same choice. route_operation.handle_request returns a value or     *)
(* raises, and may have started the response.                              *)
(***************************************************************************)
\* what handle_request and intercept return
Results == {"r1", "r2"}

NoValue == "none"

\* the interceptors whose intercept() is running, outermost first
Running(stack) == [i \in 1..Len(stack) |-> stack[i].idx]

Event(what, idx, stack, value) ==
    [what |-> what, idx |-> idx, inside |-> Running(stack), value |-> value]

InterceptIdle ==
    /\ route_interceptors_length = 0
    /\ ipc = "start"
    /\ frames = <<>>
    /\ chain_log = <<>>
    /\ res = NoValue
    /\ response_started = FALSE

\* execute is called on a route with 0..MaxInterceptors interceptors (lines 31-40)
InterceptInit ==
    /\ route_interceptors_length \in 0..MaxInterceptors
    /\ ipc = "start"
    /\ frames = <<>>
    /\ chain_log = <<>>
    /\ res = NoValue
    /\ response_started = FALSE

\* the number of handler(idx) calls made so far
HandlerCalls ==
    Len(SelectSeq(chain_log, LAMBDA e : e.what \in {"intercept", "handle_request"}))

\* a handler that leaves the last interceptor out
HandlerTargetSkipsLast(idx) ==
    IF idx + 1 >= route_interceptors_length THEN "handle_request" ELSE "intercept"

\* handler(idx), lines 45-49: if idx >= route_interceptors_length
HandlerTarget(idx) ==
    IF idx >= route_interceptors_length THEN "handle_request" ELSE "intercept"

\* handler(idx) is called while the intercept() calls of stack are running
CallHandler(idx, stack) ==
    IF HandlerTarget(idx) = "handle_request"
    THEN /\ ipc' = "request"
         /\ frames' = stack
         /\ chain_log' = Append(chain_log, Event("handle_request", idx, stack, NoValue))
    ELSE /\ ipc' = "chain"
         /\ frames' = Append(stack, [idx |-> idx])
         /\ chain_log' = Append(chain_log, Event("intercept", idx, stack, NoValue))

\* lines 42-53: if route_interceptors: res = await handler(0)
\* else: res = await route_operation.handle_request(context=context)
Execute ==
    /\ ipc = "start"
    /\ IF route_interceptors_length > 0
       THEN CallHandler(0, <<>>)
       ELSE /\ ipc' = "request"
            /\ frames' = <<>>
            /\ chain_log' = Append(chain_log, Event("handle_request", 0, <<>>, NoValue))
    /\ UNCHANGED <<route_interceptors_length, res, response_started>>
    /\ UNCHANGED otherThanIntercept

\* the running interceptor calls the functools.partial(handler, idx + 1) it was given
InterceptCallsNext ==
    /\ ipc = "chain"
    /\ frames # <<>>
    /\ HandlerCalls < MaxHandlerCalls
    /\ CallHandler(frames[Len(frames)].idx + 1, frames)
    /\ UNCHANGED <<route_interceptors_length, res, response_started>>
    /\ UNCHANGED otherThanIntercept

\* route_operation.handle_request returns (lines 46 and 53)
HandleRequestReturns ==
    /\ ipc = "request"
    /\ \E v \in Results, started \in {response_started, TRUE} :
          /\ response_started' = started
          /\ chain_log' = Append(chain_log, Event("request_return", 0, frames, v))
          /\ IF frames = <<>>
             THEN res' = v /\ ipc' = "after"
             ELSE res' = res /\ ipc' = "chain"
    /\ UNCHANGED <<route_interceptors_length, frames>>
    /\ UNCHANGED otherThanIntercept

\* route_operation.handle_request raises: into the interceptor that called it, or out
\* of execute
HandleRequestRaises ==
    /\ ipc = "request"
    /\ ipc' = IF frames = <<>> THEN "chain_raised" ELSE "chain"
    /\ chain_log' = Append(chain_log, Event("request_raise", 0, frames, NoValue))
    /\ UNCHANGED <<route_interceptors_length, frames, res, response_started>>
    /\ UNCHANGED otherThanIntercept

\* the running intercept() returns: to the interceptor that called its handler, or to
\* res = await handler(0) (line 51)
InterceptReturns ==
    /\ ipc = "chain"
    /\ frames # <<>>
    /\ \E v \in Results :
          LET idx == frames[Len(frames)].idx
              outer == SubSeq(frames, 1, Len(frames) - 1)
          IN  /\ frames' = outer
              /\ chain_log' = Append(chain_log, Event("intercept_return", idx, outer, v))
              /\ IF outer = <<>>
                 THEN res' = v /\ ipc' = "after"
                 ELSE res' = res /\ ipc' = "chain"
    /\ UNCHANGED <<route_interceptors_length, response_started>>
    /\ UNCHANGED otherThanIntercept

\* the running intercept() raises: into the interceptor that called its handler, or
\* out of execute
InterceptRaises ==
    /\ ipc = "chain"
    /\ frames # <<>>
    /\ LET idx == frames[Len(frames)].idx
           outer == SubSeq(frames, 1, Len(frames) - 1)
       IN  /\ frames' = outer
           /\ chain_log' = Append(chain_log, Event("intercept_raise", idx, outer, NoValue))
           /\ ipc' = IF outer = <<>> THEN "chain_raised" ELSE "chain"
    /\ UNCHANGED <<route_interceptors_length, res, response_started>>
    /\ UNCHANGED otherThanIntercept

\* a test of the flag that never finds the response started
ResponseNeverSkipped(started) == FALSE

\* line 55: if context.get_args()[0][SCOPE_RESPONSE_STARTED]:
ResponseSkipped(started) == started

\* lines 55-58: return, or await route_operation.handle_response(context, res)
AfterChain ==
    /\ ipc = "after"
    /\ IF ResponseSkipped(response_started)
       THEN /\ ipc' = "done"
            /\ UNCHANGED chain_log
       ELSE /\ ipc' = "response"
            /\ chain_log' = Append(chain_log, Event("handle_response", 0, <<>>, res))
    /\ UNCHANGED <<route_interceptors_length, frames, res, response_started>>
    /\ UNCHANGED otherThanIntercept

\* route_operation.handle_response returns or raises (line 58)
HandleResponseEnds ==
    /\ ipc = "response"
    /\ ipc' \in {"done", "response_raised"}
    /\ UNCHANGED <<route_interceptors_length, frames, chain_log, res, response_started>>
    /\ UNCHANGED otherThanIntercept

(***************************************************************************)
(* Specifications                                                          *)
(***************************************************************************)
WsIdle ==
    /\ encoding = "json"
    /\ on_connect = FALSE
    /\ on_disconnect = FALSE
    /\ pc = "connect"
    /\ close_code = 0
    /\ message = NoMessage
    /\ data = NONE
    /\ nrecv = 0
    /\ events = <<>>
    /\ raised = "none"

\* WebSocketExtraHandler.dispatch, one connection
WsSpecInit == WsInit /\ ModelInit({<<>>}, {<<>>}) /\ ResolveIdle /\ ExtraIdle /\ CallsIdle /\ InterceptIdle

SpecWS == WsSpecInit /\ [][WsNext]_vars

\* EndpointArgsModel.build_model on every signature within the bounds
BuildInit == WsIdle /\ ModelInit(Signatures(MaxParams), ExtraArgLists) /\ ResolveIdle /\ ExtraIdle /\ CallsIdle /\ InterceptIdle

BuildNext == BuildModel

SpecBuild == BuildInit /\ [][BuildNext]_vars

\* the parameters of the endpoints resolve_dependencies is run on
ResolveParams ==
    {p \in AllParams :
        \/ p.name = "id" /\ p.annotation \in {"int", "Request"} /\ p.default = "empty"
        \/ p.name = "q" /\ p.annotation = "int" /\ p.default \in {"empty", "Header", "Body"}
        \/ p.name = "self" /\ p.annotation = "int"}

\* EndpointArgsModel.resolve_dependencies, one call on a model built once
ResolveInit ==
    /\ WsIdle
    /\ ModelInit(SignaturesOver(ResolveParams, MaxParams), {<<>>})
    /\ ResolveIdle
    /\ ExtraIdle
    /\ CallsIdle /\ InterceptIdle

ResolveSpecNext ==
    \/ BuildModel
    \/ ResolveDependencies
    \/ ResolveBody
    \/ ResolveNext
    \/ Return

SpecResolve == ResolveInit /\ [][ResolveSpecNext]_vars

\* ExtraEndpointArg: one object constructed, then resolved on a keyword mapping
ExtraSpecInit == WsIdle /\ ModelInit({<<>>}, {<<>>}) /\ ResolveIdle /\ ExtraInit /\ CallsIdle /\ InterceptIdle

ExtraNext == ConstructExtraArg \/ ResolveExtraArg

SpecExtra == ExtraSpecInit /\ [][ExtraNext]_vars

\* build_model on endpoints with one extra argument of any name, annotation and default
ExtraBuildInit ==
    /\ WsIdle
    /\ ModelInit(SignaturesOver(ResolveParams, MaxParams), {<<x>> : x \in AnyExtraArgs})
    /\ ResolveIdle
    /\ ExtraIdle
    /\ CallsIdle /\ InterceptIdle

ExtraBuildNext == BuildModel

SpecExtraBuild == ExtraBuildInit /\ [][ExtraBuildNext]_vars

\* the endpoints the concurrent calls run on, for "/items/{id}":
\* def f(q: int = Header(None), id: int) and def g(q: int = Body(None), id: int)
ConcurrentEndpoints ==
    {<<[name |-> "q", kind |-> "POSITIONAL_OR_KEYWORD", annotation |-> "int", default |-> d],
       [name |-> "id", kind |-> "POSITIONAL_OR_KEYWORD", annotation |-> "int",
        default |-> "empty"]>> : d \in {"Header", "Body"}}

\* resolve_dependencies called concurrently on one built model
ConcurrentInit ==
    /\ WsIdle
    /\ ModelBuilt(ConcurrentEndpoints, {<<>>})
    /\ ResolveIdle
    /\ ExtraIdle
    /\ CallsIdle /\ InterceptIdle

ConcurrentNext ==
    \/ \E c \in Calls : CallStart(c)
    \/ \E c \in Calls : CallBody(c)
    \/ \E c \in Calls : CallNext(c)
    \/ \E c \in Calls : CallReturn(c)

SpecConcurrent == ConcurrentInit /\ [][ConcurrentNext]_vars

\* EllarInterceptorConsumer.execute, one call
InterceptSpecInit ==
    /\ WsIdle
    /\ ModelInit({<<>>}, {<<>>})
    /\ ResolveIdle
    /\ ExtraIdle
    /\ CallsIdle
    /\ InterceptInit

InterceptNext ==
    \/ Execute
    \/ InterceptCallsNext
    \/ HandleRequestReturns
    \/ HandleRequestRaises
    \/ InterceptReturns
    \/ InterceptRaises
    \/ AfterChain
    \/ HandleResponseEnds

SpecIntercept == InterceptSpecInit /\ [][InterceptNext]_vars

(***************************************************************************)
(* Properties of WebSocketExtraHandler.dispatch                            *)
(***************************************************************************)
EventIndexes == 1..Len(events)

Count(op) == Cardinality({i \in EventIndexes : events[i].op = op})

CountOf(op, n) == Cardinality({i \in EventIndexes : events[i] = Ev(op, n)})

\* the statement close_code = 1000 of line 33 was reached: the try block was entered
EnteredLoop == close_code # 0

\* the loop ended by a websocket.disconnect message
EndedByDisconnect == Count("receive.disconnect") > 0

LoopOps ==
    {"receive", "receive.disconnect", "receive.raise", "decode.ok", "decode.raise",
     "resolve.ok", "resolve.errors", "resolve.raise", "on_receive", "send_json",
     "send_json.errors", "close"}

\* C4: a run of dispatch that entered the receive loop invokes the registered
\* on-disconnect hook exactly once, as its last call (so after the last on_receive),
\* however the loop ended; it is not invoked while the loop runs, nor when no loop ran.
C4_DisconnectHookExactlyOnce ==
    /\ (pc = "done" /\ EnteredLoop /\ on_disconnect) =>
          /\ Count("on_disconnect") = 1
          /\ events[Len(events)].op = "on_disconnect"
    /\ (pc # "done" \/ ~EnteredLoop \/ ~on_disconnect) => Count("on_disconnect") = 0

\* C4 witness: on_receive raised and the hook then ran once
C4_Witness ==
    /\ pc = "done"
    /\ on_disconnect
    /\ raised = "ReceiverError"
    /\ Count("on_receive") = 2
    /\ Count("on_disconnect") = 1

C6_SequentialMessages ==
    /\ \A i \in EventIndexes :
          events[i].op = "on_receive" =>
             /\ i > 3
             /\ events[i - 1] = Ev("resolve.ok", events[i].n)
             /\ events[i - 2] = Ev("decode.ok", events[i].n)
             /\ events[i - 3] = Ev("receive", events[i].n)
             /\ CountOf("on_receive", events[i].n) = 1
    /\ \A i \in EventIndexes :
          events[i].op = "resolve.ok" =>
             IF i = Len(events) THEN pc = "on_receive"
             ELSE events[i + 1] = Ev("on_receive", events[i].n)
    /\ \A i \in EventIndexes :
          events[i].op = "receive" =>
             /\ CountOf("receive", events[i].n) = 1
             /\ IF events[i].n = 1 THEN i = 2
                ELSE events[i - 1] = Ev("on_receive", events[i].n - 1)
    /\ \A i \in EventIndexes :
          events[i].op = "receive.disconnect" =>
             \A j \in EventIndexes : j > i => events[j].op \notin LoopOps

\* C6 witness: two messages went through on_receive, then the client disconnected
C6_Witness ==
    /\ pc = "done"
    /\ CountOf("on_receive", 1) = 1
    /\ CountOf("on_receive", 2) = 1
    /\ EndedByDisconnect

\* the message cannot be decoded for the encoding: text expected but no text, bytes
\* expected but no bytes, or JSON expected and the payload is not a JSON document
Undecodable(enc, msg) ==
    \/ enc = "text" /\ msg.text \notin TextPayloads
    \/ enc = "bytes" /\ msg.bytes \notin BytesPayloads
    \/ enc = "json" /\ msg.text # "t_json" /\ msg.bytes # "b_json"

\* decode has just ended for the current message
JustDecoded ==
    /\ Len(events) > 0
    /\ events[Len(events)].op \in {"decode.ok", "decode.raise"}

\* C7: when the received message cannot be decoded for the configured encoding,
\* decode sends a frame with code 1003 before it raises, the raise ends the loop
\* through the cleanup, and on_receive is not invoked for that message.
C7_DecodeFailureReported ==
    /\ (JustDecoded /\ Undecodable(encoding, message)) =>
          /\ pc = "finally"
          /\ raised # "none"
          /\ \E j \in EventIndexes :
                /\ events[j] = Ev("send_json", WS_1003_UNSUPPORTED_DATA)
                /\ \E i \in EventIndexes : i < j /\ events[i] = Ev("receive", nrecv)
    /\ (Len(events) > 0 /\ events[Len(events)] = Ev("on_receive", nrecv)) =>
          ~Undecodable(encoding, message)

\* C8: when the dependencies of a decoded message resolve with errors, one frame with
\* code 1003 and the errors is sent, WebSocketRequestValidationError is raised, and
\* nothing but the cleanup follows: no on_receive, no further message.
C8_ValidationFailureReported ==
    \A i \in EventIndexes :
       events[i].op = "resolve.errors" =>
          /\ events[i - 1] = Ev("decode.ok", events[i].n)
          /\ i < Len(events)
          /\ events[i + 1] = Ev("send_json.errors", WS_1003_UNSUPPORTED_DATA)
          /\ Count("send_json.errors") = 1
          /\ CountOf("on_receive", events[i].n) = 0
          /\ \A j \in EventIndexes : j > i + 1 => events[j].op = "on_disconnect"
          /\ raised = "WebSocketRequestValidationError"
          /\ pc \in {"finally", "done"}

\* C8 witness: the second message failed validation and the connection was cleaned up
C8_Witness ==
    /\ pc = "done"
    /\ events[Len(events)].op = "on_disconnect"
    /\ CountOf("resolve.errors", 2) = 1
    /\ CountOf("on_receive", 1) = 1

\* C9: before any message is received exactly one of the two happens: the registered
\* on-connect hook is invoked and the handler issues no accept, or, with no hook
\* registered, the handler issues accept() exactly once.
C9_ConnectHookOrAccept ==
    /\ pc = "connect" => events = <<>>
    /\ pc # "connect" =>
          /\ events[1] = Ev(IF on_connect THEN "on_connect" ELSE "accept", 0)
          /\ Count("on_connect") = (IF on_connect THEN 1 ELSE 0)
          /\ Count("accept") = (IF on_connect THEN 0 ELSE 1)

\* C9 witness: a hook is registered, it ran, and a message was received after it
C9_Witness ==
    /\ on_connect
    /\ Len(events) > 1
    /\ events[1].op = "on_connect"
    /\ events[2] = Ev("receive", 1)

\* C25: when the connect step (the on-connect hook, or accept()) raises, dispatch ends
\* with that exception and has made no other call: no message is received, on_receive
\* and the on-disconnect hook are not invoked.
C25_ConnectFailurePropagates ==
    raised = "ConnectError" =>
        /\ pc = "done"
        /\ events = ConnectCalls
        /\ nrecv = 0
        /\ Count("receive") = 0
        /\ Count("receive.disconnect") = 0
        /\ Count("on_receive") = 0
        /\ Count("on_disconnect") = 0

\* C25 witness: both hooks are registered and the on-connect hook raised
C25_Witness ==
    /\ on_connect
    /\ on_disconnect
    /\ raised = "ConnectError"
    /\ pc = "done"
    /\ events = <<Ev("on_connect", 0)>>

(***************************************************************************)
(* Properties of EndpointArgsModel.resolve_dependencies                    *)
(***************************************************************************)
\* the indexes of the route resolvers resolve() was awaited on, in order
RouteCalls == [i \in 1..Len(SelectSeq(invoked, LAMBDA c : c.idx # BodyIdx)) |->
                  SelectSeq(invoked, LAMBDA c : c.idx # BodyIdx)[i].idx]

\* the errors a resolve() call returned, a single error counting as a list of one
ReturnedErrors(call) ==
    CASE call.result.errors.shape = "single" -> <<call.result.errors.item>>
      [] call.result.errors.shape = "list" -> call.result.errors.items
      [] OTHER -> <<>>

\* the errors of the calls from the i-th on, concatenated in call order
RECURSIVE ConcatErrors(_, _)
ConcatErrors(awaited, i) ==
    IF i > Len(awaited) THEN <<>>
    ELSE ReturnedErrors(awaited[i]) \o ConcatErrors(awaited, i + 1)

\* C1: with a body resolver whose resolution added an error, resolve() is awaited on
\* no route resolver and the call returns exactly the body's errors.
C1_BodyErrorsShortCircuit ==
    (body_resolver # NoResolver /\ body_errors # <<>>) =>
        /\ RouteCalls = <<>>
        /\ Len(invoked) = 1
        /\ invoked[1].idx = BodyIdx
        /\ body_errors = ReturnedErrors(invoked[1])
        /\ errors = body_errors
        /\ rpc \in {"return", "returned"}

\* C1 witness: the body failed, a route resolver exists, and the call has returned
C1_Witness ==
    /\ rpc = "returned"
    /\ body_resolver # NoResolver
    /\ Len(route_models) > 0
    /\ Len(errors) = 2
    /\ errors = body_errors

\* C2: with no body resolver, or a body resolved without error, a returned call has
\* awaited resolve() once on every route resolver, in route-model order, and its
\* errors are the resolvers' errors concatenated in that order.
C2_AllResolversAllErrors ==
    (rpc = "returned" /\ (body_resolver = NoResolver \/ body_errors = <<>>)) =>
        /\ RouteCalls = [i \in 1..Len(route_models) |-> i]
        /\ errors = ConcatErrors(invoked, 1)
        /\ (body_resolver # NoResolver) => (Len(invoked) > 0 /\ invoked[1].idx = BodyIdx)

\* C2 witness: the first of two route resolvers returned one error that is not a
\* list, the second a list of two, and all three are returned
C2_Witness ==
    /\ rpc = "returned"
    /\ body_resolver = NoResolver
    /\ Len(route_models) = 2
    /\ Len(invoked) = 2
    /\ invoked[1].result.errors.shape = "single"
    /\ invoked[2].result.errors.shape = "list"
    /\ Len(errors) = 3

(***************************************************************************)
(* Properties of EndpointArgsModel.build_model                             *)
(***************************************************************************)
\* build_model() has been called and the last call returned
Built == build_count > 0 /\ build_error = "none"

\* the resolvers of the parameters build_model processed, in processing order: the
\* signature's, then the extra arguments'
RECURSIVE Flatten(_, _)
Flatten(steps, i) ==
    IF i > Len(steps) THEN <<>>
    ELSE (IF steps[i].outcome = "add" THEN <<steps[i].resolver>> ELSE <<>>)
         \o Flatten(steps, i + 1)

Processed ==
    Flatten([i \in 1..Len(endpoint_signature) |-> SignatureParameter(endpoint_signature[i])], 1)
    \o Flatten([i \in 1..Len(extra_endpoint_args) |-> ExtraParameter(extra_endpoint_args[i])], 1)

From(in_) == SelectSeq(Processed, LAMBDA r : r.in_ = in_)

BodyResolverKinds == {"Body", "Form", "File", "BulkBody", "BulkForm"}

\* C3: after build_model() the route models are the header resolvers, then the path,
\* query, cookie and system resolvers, each group in processing order, and none of
\* them is a body, form or file resolver.
C3_RouteModelOrder ==
    Built =>
        /\ route_models =
              From("header") \o From("path") \o From("query") \o From("cookie")
              \o From("system")
        /\ \A i \in 1..Len(route_models) :
              /\ route_models[i].in_ # "body"
              /\ route_models[i].kind \notin BodyResolverKinds

\* C3 witness: a path parameter declared before a header parameter, and an extra
\* header argument: the two header resolvers come first, in processing order
C3_Witness ==
    /\ Built
    /\ Len(endpoint_signature) = 2
    /\ endpoint_signature[1].name = "id"
    /\ Len(route_models) = 3
    /\ route_models[1].name = "q" /\ route_models[1].in_ = "header"
    /\ route_models[2].name = "limit" /\ route_models[2].in_ = "header"
    /\ route_models[3].name = "id" /\ route_models[3].in_ = "path"

\* the source a parameter is classified to when it is neither skipped nor injected
ClassifiedSource(p) ==
    IF p.name \in PathParamNames THEN "Path"
    ELSE IF p.default \in FieldKinds THEN p.default
    ELSE "Query"

\* the parameter is classified to a source (it is not skipped and not system-injected)
IsClassified(p) ==
    /\ p.kind = "POSITIONAL_OR_KEYWORD"
    /\ ~(p.name = "self" /\ p.annotation = "empty")
    /\ ~(p.annotation = "Request" /\ p.default = "empty")
    /\ p.default # "System"

\* neither scalar nor a scalar sequence
Structured(annotation) == annotation \in {"Item", "Item2", "List[Item]"}

NonBodySources == {"Path", "Query", "Header", "Cookie"}

\* the i-th parameter is the first one build_model can fail on
FirstToFail(i) ==
    /\ i \in 1..Len(endpoint_signature)
    /\ \A j \in 1..(i - 1) : SignatureParameter(endpoint_signature[j]).outcome # "raise"

AllResolversBuilt ==
    UNION {{computation_models[b][i] : i \in 1..Len(computation_models[b])} : b \in Buckets}

ExplicitNonBody == {"Path", "Query", "Header", "Cookie"}

ResolversNamed(n) ==
    [header |-> SelectSeq(computation_models["header"], LAMBDA r : r.name = n),
     path |-> SelectSeq(computation_models["path"], LAMBDA r : r.name = n),
     query |-> SelectSeq(computation_models["query"], LAMBDA r : r.name = n),
     cookie |-> SelectSeq(computation_models["cookie"], LAMBDA r : r.name = n),
     body |-> SelectSeq(computation_models["body"], LAMBDA r : r.name = n),
     system |-> SelectSeq(computation_models["system"], LAMBDA r : r.name = n)]

\* the number of resolvers in such buckets
NumResolvers(made) ==
    Len(made["header"]) + Len(made["path"]) + Len(made["query"]) + Len(made["cookie"])
    + Len(made["body"]) + Len(made["system"])

\* the number of resolvers build_model made for the parameter of this name
NumResolversNamed(n) == NumResolvers(ResolversNamed(n))

\* no parameter after the i-th raises when it is processed on its own
NoLaterFailure(i) ==
    \A j \in (i + 1)..Len(endpoint_signature) :
       SignatureParameter(endpoint_signature[j]).outcome # "raise"

\* the i-th parameter has an explicit marker of this kind as default and a model type,
\* is not named after a path placeholder and is the first build_model can fail on
ModelParameter(i, kind) ==
    /\ FirstToFail(i)
    /\ endpoint_signature[i].name \notin PathParamNames
    /\ endpoint_signature[i].kind = "POSITIONAL_OR_KEYWORD"
    /\ endpoint_signature[i].default = kind
    /\ IsBaseModel(endpoint_signature[i].annotation)

C13_RebuildFromScratch ==
    build_count >= 2 =>
        /\ route_models = first_build.route
        /\ build_error = first_build.error
        /\ \A onepass \in {Processed} :
              \A b \in Buckets :
                 /\ Built => computation_models[b] = SelectSeq(onepass, LAMBDA r : r.in_ = b)
                 /\ Len(computation_models[b]) <= Len(SelectSeq(onepass, LAMBDA r : r.in_ = b))

\* C13 witness: two parameters and an extra argument, built twice into three route
\* resolvers
C13_Witness ==
    /\ build_count = 2
    /\ Built
    /\ Len(endpoint_signature) = 2
    /\ Len(extra_endpoint_args) = 1
    /\ Len(route_models) = 3
    /\ route_models = first_build.route
    /\ route_models[1].in_ = "path"
    /\ route_models[2].in_ = "query"
    /\ route_models[3].in_ = "query"

\* C14: a *args parameter, a **kwargs parameter and a parameter named self without an
\* annotation have no resolver in any bucket; a parameter named self with an
\* annotation has the one resolver any parameter of its annotation and default has
\* (here: int and no default, a query resolver).
C14_SkippedParameters ==
    build_count > 0 =>
        \A i \in 1..Len(endpoint_signature) :
           LET p == endpoint_signature[i] IN
             FirstToFail(i) =>
                /\ (\/ p.kind \in {"VAR_POSITIONAL", "VAR_KEYWORD"}
                    \/ (p.name = "self" /\ p.annotation = "empty"))
                      => NumResolversNamed(p.name) = 0
                /\ (p.name = "self" /\ p.annotation # "empty")
                      => /\ NumResolversNamed(p.name) = 1
                         /\ ResolversNamed(p.name)["query"] =
                               <<Resolver("self", "query", "Query", 0)>>

\* C14 witness: def endpoint(self, *args) was built into no resolver at all
C14_Witness ==
    /\ Built
    /\ extra_endpoint_args = <<>>
    /\ Len(endpoint_signature) = 2
    /\ endpoint_signature[1].name = "self"
    /\ endpoint_signature[1].annotation = "empty"
    /\ endpoint_signature[2].kind = "VAR_POSITIONAL"
    /\ route_models = <<>>
    /\ \A b \in Buckets : computation_models[b] = <<>>

\* the bucket and resolver kind the classification order gives a parameter: "none" for
\* a skipped one
ExpectedClass(p) ==
    IF p.kind \in {"VAR_POSITIONAL", "VAR_KEYWORD"} \/ (p.name = "self" /\ p.annotation = "empty")
    THEN [in_ |-> "none", kinds |-> {}]
    ELSE IF p.annotation = "Request" /\ p.default = "empty"
    THEN [in_ |-> "system", kinds |-> {"NonSchema"}]
    ELSE IF p.default = "System"
    THEN [in_ |-> "system", kinds |-> {"System"}]
    ELSE IF p.name \in PathParamNames
    THEN [in_ |-> "path", kinds |-> {"Path"}]
    ELSE IF p.default \in {"Path", "Query", "Header", "Cookie"}
    THEN [in_ |-> InOf(p.default), kinds |-> {p.default}]
    ELSE IF p.default \in {"Body", "Form", "File"}
    THEN [in_ |-> "body", kinds |-> {p.default, "BulkForm"}]
    ELSE [in_ |-> "query", kinds |-> {"Query"}]

\* C15: the classification is first match wins in the order skipped, non-schema
\* injection, system-parameter default, path name, field kind of the default or Query;
\* a parameter that is processed has at most one resolver, in the bucket of its class,
\* and exactly one when it is injected or its type is scalar.
C15_ClassificationOrder ==
    build_count > 0 =>
        \A i \in 1..Len(endpoint_signature) :
           LET p == endpoint_signature[i]
           IN  FirstToFail(i) =>
                 \A class \in {ExpectedClass(p)}, made \in {ResolversNamed(p.name)} :
                    /\ NumResolvers(made) <= 1
                    /\ \A b \in Buckets :
                          made[b] # <<>> => (b = class.in_ /\ made[b][1].kind \in class.kinds)
                    /\ (class.in_ = "system" \/ (class.in_ # "none" /\ p.annotation \in {"empty", "int"}))
                          => NumResolvers(made) = 1
                    /\ class.in_ = "none" => NumResolvers(made) = 0

\* C15 witness: on "/items/{id}", id: Request without default and q: List[Item] with a
\* system-parameter default are both injected: two system resolvers, no path resolver
C15_Witness ==
    /\ Built
    /\ Len(endpoint_signature) = 2
    /\ endpoint_signature[1].name = "id"
    /\ endpoint_signature[1].annotation = "Request"
    /\ endpoint_signature[1].default = "empty"
    /\ endpoint_signature[2].name = "q"
    /\ endpoint_signature[2].annotation = "List[Item]"
    /\ endpoint_signature[2].default = "System"
    /\ extra_endpoint_args = <<>>
    /\ route_models = <<Resolver("id", "system", "NonSchema", 0),
                        Resolver("q", "system", "System", 0)>>

\* C16: a parameter named after a path placeholder that is neither skipped nor
\* injected and has a scalar type is a path resolver whatever its default is, and its
\* field is required; a parameter of another name that gets a resolver has it in the
\* bucket of its default's field kind when the default is a marker, and in the query
\* bucket otherwise.
C16_PathIgnoresDefault ==
    build_count > 0 =>
        \A i \in 1..Len(endpoint_signature) :
           LET p == endpoint_signature[i]
           IN  (FirstToFail(i) /\ IsClassified(p)) =>
                 \A made \in {ResolversNamed(p.name)} :
                    /\ (p.name \in PathParamNames /\ p.annotation \in {"empty", "int"})
                          => /\ made["path"] = <<Resolver(p.name, "path", "Path", 0)>>
                             /\ NumResolvers(made) = 1
                             /\ p.name \in required_fields
                    /\ (p.name \notin PathParamNames /\ NumResolvers(made) > 0)
                          => /\ NumResolvers(made) = 1
                             /\ p.default \in FieldKinds => Len(made[InOf(p.default)]) = 1
                             /\ p.default \notin FieldKinds => Len(made["query"]) = 1
                    /\ (p.name \notin PathParamNames /\ p.annotation \in {"empty", "int"})
                          => NumResolvers(made) = 1

\* C16 witness: on "/items/{id}", id: int = Query(None) became a required path
\* resolver and q: int = 5 an optional query resolver
C16_Witness ==
    /\ Built
    /\ Len(endpoint_signature) = 2
    /\ endpoint_signature[1].name = "id"
    /\ endpoint_signature[1].annotation = "int"
    /\ endpoint_signature[1].default = "Query"
    /\ endpoint_signature[2].name = "q"
    /\ endpoint_signature[2].annotation = "int"
    /\ endpoint_signature[2].default = "value"
    /\ extra_endpoint_args = <<>>
    /\ route_models = <<Resolver("id", "path", "Path", 0), Resolver("q", "query", "Query", 0)>>
    /\ required_fields = {"id"}

(***************************************************************************)
(* Properties of ExtraEndpointArg                                          *)
(***************************************************************************)
\* kwargs after the i-th resolve() call
KwargsAfter(i) == IF i = Len(resolved) THEN kwargs ELSE resolved[i + 1].before

\* C17: resolve(kwargs) returns the value mapped to the argument's name and removes
\* that key and no other when the name is a key of kwargs; it raises and leaves kwargs
\* as it was when the name is absent; every resolve after the first on the same kwargs
\* raises.
C17_ResolvePops ==
    \A i \in 1..Len(resolved) :
       LET c == resolved[i] IN
         /\ c.before[extra_arg.name] # Unset =>
               /\ c.exc = "none"
               /\ c.value = c.before[extra_arg.name]
               /\ KwargsAfter(i) = [c.before EXCEPT ![extra_arg.name] = Unset]
         /\ c.before[extra_arg.name] = Unset =>
               /\ c.exc = "AttributeError"
               /\ KwargsAfter(i) = c.before
         /\ i > 1 => c.exc = "AttributeError"

\* C17 witness: limit mapped to 0 was returned by the first resolve, which left the
\* other two keys; the second resolve raised
C17_Witness ==
    /\ extra_arg.name = "limit"
    /\ Len(resolved) = 2
    /\ resolved[1].before = [k \in KwKeys |-> IF k = "limit" THEN 0 ELSE 5]
    /\ resolved[1].exc = "none"
    /\ resolved[1].value = 0
    /\ resolved[2].exc = "AttributeError"
    /\ kwargs = [k \in KwKeys |-> IF k = "limit" THEN Unset ELSE 5]

\* C18: an ExtraEndpointArg constructed with default_value = d has d as its default,
\* for every d that is not None, 0 included; its default is the empty marker only when
\* no default value (None) was given.
C18_DefaultValueStored ==
    extra_arg # NoArg =>
        /\ default_value # "None" => extra_arg.default = default_value
        /\ extra_arg.default = "empty" => default_value = "None"

(***************************************************************************)
(* Properties of build_model on extra arguments                            *)
(***************************************************************************)
\* the signature parameter of the name, annotation and default of an extra argument
AsParameter(x) ==
    [name |-> x.name, kind |-> "POSITIONAL_OR_KEYWORD", annotation |-> x.annotation,
     default |-> x.default]

\* C19: when the signature is built without failure, an extra argument (of a name the
\* signature does not use) ends as the signature parameter of its name, annotation and
\* default would: one resolver in the same bucket and of the same kind, or the same
\* exception; and in each bucket the extra arguments' resolvers come after the
\* signature's.
C19_ExtraClassifiedAsSignature ==
    (build_count > 0 /\ BuildResult(endpoint_signature, <<>>).exc = "none") =>
        /\ \A j \in 1..Len(extra_endpoint_args) :
              LET x == extra_endpoint_args[j]
                  same == SignatureParameter(AsParameter(x))
              IN  (\A i \in 1..Len(endpoint_signature) : endpoint_signature[i].name # x.name)
                  => /\ same.outcome = "raise" => build_error = same.exc
                     /\ same.outcome = "add" =>
                           /\ build_error = "none"
                           /\ NumResolversNamed(x.name) = 1
                           /\ ResolversNamed(x.name)[same.resolver.in_] = <<same.resolver>>
        /\ build_error = "none" =>
              \A b \in Buckets :
                 computation_models[b] =
                    SelectSeq(Flatten([i \in 1..Len(endpoint_signature) |->
                                         SignatureParameter(endpoint_signature[i])], 1),
                              LAMBDA r : r.in_ = b)
                    \o SelectSeq(Flatten([j \in 1..Len(extra_endpoint_args) |->
                                            SignatureParameter(AsParameter(extra_endpoint_args[j]))], 1),
                                 LAMBDA r : r.in_ = b)

(***************************************************************************)
(* Properties of concurrent resolve_dependencies calls                     *)
(***************************************************************************)
\* the values and errors of a call that awaits these results with no other call
\* running: the results merged in order, from the i-th on
RECURSIVE MergeAll(_, _, _)
MergeAll(awaited, i, acc) ==
    IF i > Len(awaited) THEN acc
    ELSE MergeAll(awaited, i + 1, Merge(acc.values, acc.errors, awaited[i].result))

\* the resolvers a call alone awaits, given what they return: the body resolver if
\* there is one, then, unless it returned errors, every route resolver in order
AwaitedAsAlone(call) ==
    LET idxs == [i \in 1..Len(call.invoked) |-> call.invoked[i].idx]
        all == [i \in 1..Len(call.route) |-> i]
    IN  IF call.body = NoResolver THEN idxs = all
        ELSE /\ idxs # <<>>
             /\ idxs[1] = BodyIdx
             /\ IF HasErrors(call.invoked[1].result.errors)
                THEN idxs = <<BodyIdx>>
                ELSE idxs = <<BodyIdx>> \o all

\* C20: whatever the interleaving, a call that has returned returned the values and
\* errors of its own resolvers' results merged in order, having awaited the resolvers
\* it awaits when alone; and while a call runs and after it, the model's route
\* resolver list and body resolver are those the call started with.
C20_CallsIndependent ==
    \A c \in Calls :
       /\ results[c].returned =>
             /\ results[c].values = MergeAll(calls[c].invoked, 1, NoAccumulator).values
             /\ results[c].errors = MergeAll(calls[c].invoked, 1, NoAccumulator).errors
             /\ AwaitedAsAlone(calls[c])
       /\ calls[c].rpc # "idle" =>
             /\ route_models = calls[c].route
             /\ body_resolver = calls[c].body

\* C20 witness: call 2 started while call 1 was suspended, both awaited the two route
\* resolvers, and each returned the two values and the two errors of its own context
C20_Witness ==
    /\ body_resolver = NoResolver
    /\ 1 \in calls[2].during
    /\ results[1].returned /\ results[2].returned
    /\ results[1].values = [k \in Keys |-> IF k = "a" THEN Tag(1, 1) ELSE Tag(1, 2)]
    /\ results[2].values = [k \in Keys |-> IF k = "a" THEN Tag(2, 1) ELSE Tag(2, 2)]
    /\ results[1].errors = <<Error(Tag(1, 2), 1), Error(Tag(1, 2), 2)>>
    /\ results[2].errors = <<Error(Tag(2, 2), 1), Error(Tag(2, 2), 2)>>

\* the place of a source in the order body, header, path, query, cookie, system
SourceRank(in_) ==
    CASE in_ = "body" -> 0
      [] in_ = "header" -> 1
      [] in_ = "path" -> 2
      [] in_ = "query" -> 3
      [] in_ = "cookie" -> 4
      [] in_ = "system" -> 5

\* the resolver an awaited call of resolve_dependencies was made on
ResolverOf(call) == IF call.idx = BodyIdx THEN body_resolver ELSE route_models[call.idx]

\* the awaited calls that returned key k, in the order they were awaited
Returning(k) == SelectSeq(invoked, LAMBDA call : call.result.value[k] # Unset)

\* C21: when resolve_dependencies has returned, every key some awaited resolver
\* returned is in values with the value of the last resolver that returned it, a key
\* no resolver returned is absent, and the resolvers were awaited in the order body,
\* header, path, query, cookie, system.
C21_LaterResolverOverwrites ==
    rpc = "returned" =>
        /\ \A k \in Keys :
              \A given \in {Returning(k)} :
                 IF given = <<>>
                 THEN values[k] = Unset
                 ELSE values[k] = given[Len(given)].result.value[k]
        /\ \A i, j \in 1..Len(invoked) :
              i < j => SourceRank(ResolverOf(invoked[i]).in_) <= SourceRank(ResolverOf(invoked[j]).in_)

\* C21 witness: the header resolver and then the path resolver both returned key "a";
\* values holds the path resolver's value
C21_Witness ==
    /\ rpc = "returned"
    /\ Len(invoked) = 2
    /\ ResolverOf(invoked[1]).in_ = "header"
    /\ ResolverOf(invoked[2]).in_ = "path"
    /\ invoked[1].result.value["a"] = 1
    /\ invoked[2].result.value["a"] = 2
    /\ values["a"] = 2
    /\ values["b"] = Unset

\* C22: after build_model() every path-parameter name of the route that no parameter
\* of the signature has is the name of exactly one entry of get_all_models(), placed
\* after the route resolvers, and of no entry of get_route_models().
C22_OmittedPathParameters ==
    Built =>
        \A name \in get_omitted_prefix :
           /\ Cardinality({i \in 1..Len(get_all_models) : get_all_models[i].name = name}) = 1
           /\ \A i \in 1..Len(get_all_models) :
                 get_all_models[i].name = name => i > Len(get_route_models)
           /\ \A i \in 1..Len(get_route_models) : get_route_models[i].name # name

\* the innermost of the interceptors that were running when a call was made
Caller(e) == e.inside[Len(e.inside)]

\* the calls of handler(idx) made so far
ChainCalls == SelectSeq(chain_log, LAMBDA e : e.what \in {"intercept", "handle_request"})

\* C23: intercept of the first interceptor is the first call and is made by execute
\* itself; intercept of interceptor k+1 is called only while interceptor k runs, by the
\* handler k was given; handle_request is called only while the last interceptor runs,
\* by the handler it was given, so not at all unless every interceptor has called its
\* handler; without interceptors handle_request is called by execute itself, once.
C23_ChainOrder ==
    /\ \A i \in 1..Len(chain_log) :
          LET e == chain_log[i] IN
            /\ (e.what = "intercept" /\ e.idx = 0) => (i = 1 /\ e.inside = <<>>)
            /\ (e.what = "intercept" /\ e.idx > 0) =>
                  (e.inside # <<>> /\ Caller(e) = e.idx - 1)
            /\ (e.what = "handle_request" /\ route_interceptors_length > 0) =>
                  (e.inside # <<>> /\ Caller(e) = route_interceptors_length - 1)
            /\ (e.what = "handle_request" /\ route_interceptors_length = 0) =>
                  (i = 1 /\ e.inside = <<>>)
    /\ (route_interceptors_length > 0 /\ chain_log # <<>>) =>
          chain_log[1] = Event("intercept", 0, <<>>, NoValue)
    /\ (\E i \in 1..Len(ChainCalls) : ChainCalls[i].what = "handle_request") =>
          \A k \in 0..(route_interceptors_length - 1) :
             \E i \in 1..Len(ChainCalls) :
                ChainCalls[i].inside # <<>> /\ Caller(ChainCalls[i]) = k
    /\ (route_interceptors_length = 0 /\ ipc # "start") =>
          ChainCalls = <<Event("handle_request", 0, <<>>, NoValue)>>

\* C23 witness: two interceptors, each called its handler once: intercept 0 by
\* execute, intercept 1 inside 0, handle_request inside 1, and execute is done
C23_Witness ==
    /\ route_interceptors_length = 2
    /\ ipc = "done"
    /\ ChainCalls = <<[what |-> "intercept", idx |-> 0, inside |-> <<>>, value |-> NoValue],
                      [what |-> "intercept", idx |-> 1, inside |-> <<0>>, value |-> NoValue],
                      [what |-> "handle_request", idx |-> 2, inside |-> <<0, 1>>,
                       value |-> NoValue]>>

\* the handle_response calls made so far
Responses == SelectSeq(chain_log, LAMBDA e : e.what = "handle_response")

\* what the chain, or the direct handler call, returned to execute
ChainReturns ==
    SelectSeq(chain_log, LAMBDA e : e.inside = <<>> /\ e.what \in {"intercept_return", "request_return"})

\* C24: handle_response is not called before the chain has returned to execute nor
\* when the chain raised; once execute is past its test of the response-started flag,
\* handle_response was called exactly once, on what the chain returned, when the flag
\* is false, and was not called when the flag is true.
C24_HandleResponseOnce ==
    /\ ipc \in {"start", "chain", "request", "after", "chain_raised"} => Responses = <<>>
    /\ ipc \in {"response", "done", "response_raised"} =>
          /\ Len(ChainReturns) = 1
          /\ IF response_started
             THEN Responses = <<>>
             ELSE /\ Len(Responses) = 1
                  /\ Responses[1].value = ChainReturns[1].value
                  /\ chain_log[Len(chain_log)] = Responses[1]

\* C24 witness: one interceptor got "r1" from handle_request and returned "r2"; the
\* response had not started and handle_response was called once, on "r2"
C24_Witness ==
    /\ route_interceptors_length = 1
    /\ ipc = "done"
    /\ ~response_started
    /\ \E i \in 1..Len(chain_log) :
          chain_log[i].what = "request_return" /\ chain_log[i].value = "r1"
    /\ ChainReturns = <<[what |-> "intercept_return", idx |-> 0, inside |-> <<>>, value |-> "r2"]>>
    /\ Len(Responses) = 1
    /\ Responses[1].value = "r2"

====
